---- MODULE Spec2Model ----
(***************************************************************************)
(* Model of src/main.py: the milestone classifier (check_milestone), the   *)
(* de-duplication key (generate_key), the per-event fetch                  *)
(* (fetch_upcoming_milestones_from_event) and the backward scan            *)
(* (detect_milestones).                                                    *)
(*                                                                         *)
(* Text is a sequence of one-character strings, so that startswith and the *)
(* "-" join of generate_key are computed character by character.  An       *)
(* Optional value is <<>> (Python None) or <<v>>.                          *)
(***************************************************************************)
EXTENDS Integers, Sequences, FiniteSets, TLC

\* ------------------------------------------------------------------ bounds

\* Content scenarios: "latest" resolves to 1..MaxLatest, events_limit in 1..MaxLimit.
MaxLatest == 2
MaxLimit == 2
\* Most rows on one results page.
MaxRows == 2
\* Walk scenarios: "latest" resolves to (0 - WalkBelow)..WalkLatest.
WalkLatest == 3
WalkBelow == 2
WalkLimit == 4
\* An events_limit far beyond the number of existing events.
BigLimit == 100
\* Invocations of detect_milestones in one behaviour.
MaxInvocations == 2
\* Classifier inputs: data-runs in 0..MaxRuns.
MaxRuns == 510

\* ------------------------------------------------------------------- text

None == <<>>
Some(v) == <<v>>

DigitChar == <<"0", "1", "2", "3", "4", "5", "6", "7", "8", "9">>

\* str(n) for a non-negative integer, as the f-string of generate_key formats it.
RECURSIVE Digits(_)
Digits(n) ==
    IF n < 10 THEN <<DigitChar[n + 1]>>
    ELSE Digits(n \div 10) \o <<DigitChar[(n % 10) + 1]>>

\* str.startswith(prefix)
startswith(text, prefix) ==
    /\ Len(text) >= Len(prefix)
    /\ SubSeq(text, 1, Len(prefix)) = prefix

\* Python truthiness of an Optional[int]: None and 0 are falsy.
Truthy(e) == e # None /\ e[1] # 0

\* ------------------------------------------------------------ program data

Parkrunner(runs, name, agegroup) ==
    [data_runs |-> runs, data_name |-> name, data_agegroup |-> agegroup]

SUPPORTED_MILESTONES == {25, 50, 100, 250, 500}
SUPPORTED_JUNIOR_MILESTONES == {10}

generate_key(parkrunner) ==
    Digits(parkrunner.data_runs) \o <<"-">> \o parkrunner.data_name
        \o <<"-">> \o parkrunner.data_agegroup

\* check_milestone without the "or not agegroup" clause of line 40.
check_milestone_known_only(parkrunner) ==
    LET runs_count == parkrunner.data_runs + 1
    IN  \/ runs_count \in SUPPORTED_MILESTONES
        \/ /\ startswith(parkrunner.data_agegroup, <<"J">>)
           /\ runs_count \in SUPPORTED_JUNIOR_MILESTONES

check_milestone(parkrunner) ==
    LET runs_count == parkrunner.data_runs + 1
    IN  \/ runs_count \in SUPPORTED_MILESTONES
        \/ /\ \/ startswith(parkrunner.data_agegroup, <<"J">>)
              \/ parkrunner.data_agegroup = <<>>
           /\ runs_count \in SUPPORTED_JUNIOR_MILESTONES

\* ----------------------------------------------------------------- inputs

\* Rows the results pages of the content scenarios are made of.
A24 == Parkrunner(24, <<"A">>, <<>>)
B49 == Parkrunner(49, <<"B">>, <<"S", "W", "3", "0">>)
A23 == Parkrunner(23, <<"A">>, <<>>)
AB24 == Parkrunner(24, <<"A", "-", "B">>, <<"S">>)
A24BS == Parkrunner(24, <<"A">>, <<"B", "-", "S">>)

\* A content scenario's site publishes the rows of one of these rosters:
\* a milestone and a near miss, two milestones of different counts, two
\* participants of one count, and two participants of one count whose
\* names and age groups contain "-".
Rosters == { {A24, A23}, {B49, A24}, {A24, AB24}, {AB24, A24BS} }

\* Rows of a walk scenario.
WalkPool == { Parkrunner(24, <<"A">>, <<>>) }

Pages(rows) == UNION { [1..n -> rows] : n \in 0..MaxRows }

Scenarios ==
    [latest : 1..MaxLatest, events_limit : 1..MaxLimit, roster : Rosters]
    \cup [latest : 1..WalkLatest, events_limit : (1..WalkLimit) \cup {BigLimit},
          roster : {WalkPool}]
    \cup [latest : (0 - WalkBelow)..0, events_limit : 1..WalkLimit,
          roster : {WalkPool}]

AgeGroups ==
    { <<>>, <<"J">>, <<"J", "M", "1", "0">>, <<"S">>, <<"S", "J">>,
      <<"S", "M", "3", "5", "-", "3", "9">>, <<"j">> }

\* ------------------------------------------------------------------ state

VARIABLES
    latest,          \* the event id the site's "latest results" page carries
    events_limit,    \* detect_milestones' events_limit argument
    roster,          \* the rows the site may publish
    served,          \* the site: request -> response, fixed once it answered
    invocation,      \* number of detect_milestones calls started
    pc,              \* position in detect_milestones: idle, for, fold, return
    i,               \* iterations of the for loop completed
    event_id,        \* detect_milestones' event_id (Optional)
    all_celebrants,  \* the dict, as its entries in insertion order
    next_celebrants, \* rows of the current event still to be folded in
    fetches,         \* requests this invocation made, in order
    outcomes,        \* outcome of each finished invocation
    parkrunner,      \* classifier input
    verdict          \* classifier output (Optional)

scanVars ==
    <<latest, events_limit, roster, served, invocation, pc, i, event_id,
      all_celebrants, next_celebrants, fetches, outcomes>>
classVars == <<parkrunner, verdict>>
vars == <<scanVars, classVars>>

\* -------------------------------------------------------------- the fetch

\* The URL fetch_upcoming_milestones_from_event requests: the latest-results
\* page (None) or an explicit event's page.
RequestOf(eid) == IF Truthy(eid) THEN Some(eid[1]) ELSE None

\* What the site may answer to a request: the answer it gave before, or any
\* page of its roster, or a failure (status # 200, no results table).
Answers(req) ==
    IF req \in DOMAIN served THEN {served[req]}
    ELSE [ok : {TRUE}, rows : Pages(roster)] \cup {[ok |-> FALSE, rows |-> <<>>]}

\* The event id a successful fetch returns.
ResolvedId(eid) == IF Truthy(eid) THEN eid[1] ELSE latest

RECURSIVE InsertByRuns(_, _)
InsertByRuns(s, r) ==
    IF s = <<>> THEN <<r>>
    ELSE IF Head(s).data_runs <= r.data_runs
         THEN <<Head(s)>> \o InsertByRuns(Tail(s), r)
         ELSE <<r>> \o s

\* The rows as the page lists them, not sorted.
unsorted(rows) == rows

\* sorted(rows, key=lambda x: int(x["data-runs"])): stable, ascending.
RECURSIVE sorted(_)
sorted(rows) ==
    IF rows = <<>> THEN <<>>
    ELSE InsertByRuns(sorted(SubSeq(rows, 1, Len(rows) - 1)), rows[Len(rows)])

fetch_upcoming_milestones_from_event(eid, resp) ==
    [next_celebrants |-> SelectSeq(resp.rows, check_milestone),
     event_id |-> ResolvedId(eid)]

\* --------------------------------------------------------------- the scan

Keys(celebrants) == { celebrants[k].key : k \in 1..Len(celebrants) }

Values(celebrants) == [k \in 1..Len(celebrants) |-> celebrants[k].value]

Stamp(celebrant, eid) ==
    [data_runs |-> celebrant.data_runs, data_name |-> celebrant.data_name,
     data_agegroup |-> celebrant.data_agegroup, data_event_id |-> eid]

\* Fold without the "not in" test of line 80: the later row replaces the entry.
FoldOverwrite(celebrants, celebrant, eid) ==
    IF generate_key(celebrant) \notin Keys(celebrants)
    THEN Append(celebrants,
                [key |-> generate_key(celebrant), value |-> Stamp(celebrant, eid)])
    ELSE [k \in 1..Len(celebrants) |->
            IF celebrants[k].key = generate_key(celebrant)
            THEN [key |-> celebrants[k].key, value |-> Stamp(celebrant, eid)]
            ELSE celebrants[k]]

\* Lines 79-82 for one celebrant.
Fold(celebrants, celebrant, eid) ==
    IF generate_key(celebrant) \notin Keys(celebrants)
    THEN Append(celebrants,
                [key |-> generate_key(celebrant), value |-> Stamp(celebrant, eid)])
    ELSE celebrants

\* The loop without the break of lines 84-85.
BreaksNever(eid) == FALSE

\* Line 84: the loop breaks when the decremented id is falsy.
Breaks(eid) == ~Truthy(eid)

\* event_id kept from the previous invocation instead of line 74's None.
InitialEventIdStale == event_id

\* Line 74.
InitialEventId == None

Call ==
    /\ pc = "idle"
    /\ invocation < MaxInvocations
    /\ invocation' = invocation + 1
    /\ event_id' = InitialEventId
    /\ all_celebrants' = <<>>
    /\ next_celebrants' = <<>>
    /\ i' = 0
    /\ fetches' = <<>>
    /\ pc' = "for"
    /\ UNCHANGED <<latest, events_limit, roster, served, outcomes, classVars>>

FetchOk ==
    /\ pc = "for"
    /\ i < events_limit
    /\ \E resp \in Answers(RequestOf(event_id)) :
         /\ resp.ok
         /\ LET got == fetch_upcoming_milestones_from_event(event_id, resp)
            IN  /\ next_celebrants' = sorted(got.next_celebrants)
                /\ event_id' = Some(got.event_id)
         /\ served' = (RequestOf(event_id) :> resp) @@ served
    /\ fetches' = Append(fetches, RequestOf(event_id))
    /\ pc' = "fold"
    /\ UNCHANGED <<latest, events_limit, roster, invocation, i, all_celebrants,
                   outcomes, classVars>>

\* A failed fetch that ends the scan by returning the entries found so far.
FetchFailReturnsPartial ==
    /\ pc = "for"
    /\ i < events_limit
    /\ \E resp \in Answers(RequestOf(event_id)) :
         /\ ~resp.ok
         /\ served' = (RequestOf(event_id) :> resp) @@ served
    /\ fetches' = Append(fetches, RequestOf(event_id))
    /\ outcomes' = Append(outcomes,
                          [status |-> "returned", value |-> Some(Values(all_celebrants))])
    /\ pc' = "idle"
    /\ UNCHANGED <<latest, events_limit, roster, invocation, i, event_id,
                   all_celebrants, next_celebrants, classVars>>

\* Lines 57-60 when the assertion fails or the page has no results table:
\* the exception leaves detect_milestones (line 77).
FetchFail ==
    /\ pc = "for"
    /\ i < events_limit
    /\ \E resp \in Answers(RequestOf(event_id)) :
         /\ ~resp.ok
         /\ served' = (RequestOf(event_id) :> resp) @@ served
    /\ fetches' = Append(fetches, RequestOf(event_id))
    /\ outcomes' = Append(outcomes, [status |-> "raised", value |-> None])
    /\ pc' = "idle"
    /\ UNCHANGED <<latest, events_limit, roster, invocation, i, event_id,
                   all_celebrants, next_celebrants, classVars>>

FoldOne ==
    /\ pc = "fold"
    /\ next_celebrants # <<>>
    /\ all_celebrants' = Fold(all_celebrants, Head(next_celebrants), event_id[1])
    /\ next_celebrants' = Tail(next_celebrants)
    /\ UNCHANGED <<latest, events_limit, roster, served, invocation, pc, i,
                   event_id, fetches, outcomes, classVars>>

EndIteration ==
    /\ pc = "fold"
    /\ next_celebrants = <<>>
    /\ event_id' = Some(event_id[1] - 1)
    /\ i' = i + 1
    /\ pc' = IF Breaks(event_id') THEN "return" ELSE "for"
    /\ UNCHANGED <<latest, events_limit, roster, served, invocation,
                   all_celebrants, next_celebrants, fetches, outcomes, classVars>>

Return ==
    /\ \/ pc = "return"
       \/ pc = "for" /\ i >= events_limit
    /\ outcomes' = Append(outcomes,
                          [status |-> "returned", value |-> Some(Values(all_celebrants))])
    /\ pc' = "idle"
    /\ UNCHANGED <<latest, events_limit, roster, served, invocation, i, event_id,
                   all_celebrants, next_celebrants, fetches, classVars>>

Init ==
    /\ \E sc \in Scenarios :
         /\ latest = sc.latest
         /\ events_limit = sc.events_limit
         /\ roster = sc.roster
    /\ served = << >>
    /\ invocation = 0
    /\ pc = "idle"
    /\ i = 0
    /\ event_id = None
    /\ all_celebrants = <<>>
    /\ next_celebrants = <<>>
    /\ fetches = <<>>
    /\ outcomes = <<>>
    /\ parkrunner = Parkrunner(0, <<>>, <<>>)
    /\ verdict = None

Next ==
    \/ Call
    \/ FetchOk
    \/ FetchFail
    \/ FoldOne
    \/ EndIteration
    \/ Return

Spec == Init /\ [][Next]_vars

\* --------------------------------------------------------- the classifier

Classify ==
    /\ verdict = None
    /\ verdict' = Some(check_milestone(parkrunner))
    /\ UNCHANGED <<scanVars, parkrunner>>

InitClassifier ==
    /\ parkrunner \in { Parkrunner(n, <<"A">>, g) : n \in 0..MaxRuns, g \in AgeGroups }
    /\ verdict = None
    /\ latest = 1
    /\ events_limit = 1
    /\ roster = {}
    /\ served = << >>
    /\ invocation = 0
    /\ pc = "idle"
    /\ i = 0
    /\ event_id = None
    /\ all_celebrants = <<>>
    /\ next_celebrants = <<>>
    /\ fetches = <<>>
    /\ outcomes = <<>>

NextClassifier == Classify

SpecClassifier == InitClassifier /\ [][NextClassifier]_vars

\* ------------------------------------------------- what a scan has observed

Min(a, b) == IF a <= b THEN a ELSE b

Range(s) == { s[k] : k \in 1..Len(s) }

Triple(r) == <<r.data_runs, r.data_name, r.data_agegroup>>

\* The current invocation has finished, by returning or by raising.
Ended == pc = "idle" /\ invocation >= 1

Outcome == outcomes[Len(outcomes)]

Returned == Ended /\ Outcome.status = "returned"

\* The list detect_milestones returned.
Result == Outcome.value[1]

\* The k-th fetch of this invocation: whether it succeeded, the rows of its
\* page, and the event id it resolved to.
OkOf(k) == served[fetches[k]].ok
PageOf(k) == served[fetches[k]].rows
IdOf(k) == IF fetches[k] = None THEN latest ELSE fetches[k][1]

Fetched == 1..Len(fetches)

\* The fetches whose page holds a row with the triple t.
Holding(t) == { k \in Fetched : \E r \in Range(PageOf(k)) : Triple(r) = t }

\* The qualifying triples among the rows of the fetched pages.
QualifyingSeen ==
    { Triple(r) : r \in { x \in UNION { Range(PageOf(k)) : k \in Fetched } :
                          check_milestone(x) } }

\* Positions of the result's entries that carry the triple t.
EntriesOf(t) == { p \in 1..Len(Result) : Triple(Result[p]) = t }

FirstSeen(t) == CHOOSE k \in Holding(t) : \A j \in Holding(t) : k <= j

FirstPos(t, page) ==
    CHOOSE p \in 1..Len(page) :
        /\ Triple(page[p]) = t
        /\ \A j \in 1..(p - 1) : Triple(page[j]) # t

\* No two qualifying triples seen by this scan share a generate_key value.
KeysDistinct ==
    \A r1, r2 \in UNION { Range(PageOf(k)) : k \in Fetched } :
        (check_milestone(r1) /\ check_milestone(r2) /\ Triple(r1) # Triple(r2))
            => generate_key(r1) # generate_key(r2)

\* ------------------------------------------------------------------ claims

\* C1: check_milestone is true exactly when data-runs + 1 is one of 25, 50,
\* 100, 250, 500, or the age group is empty or starts with "J" and
\* data-runs + 1 is 10; so 9 runs with a non-empty, non-"J" age group is
\* rejected, and data-runs + 1 = 24 is rejected for every age group.
C1_Classifier ==
    verdict # None =>
        LET runs == parkrunner.data_runs
            age == parkrunner.data_agegroup
            junior == age = <<>> \/ age[1] = "J"
        IN  /\ verdict[1] = (\/ runs + 1 \in {25, 50, 100, 250, 500}
                             \/ junior /\ runs + 1 = 10)
            /\ (runs = 9 /\ ~junior) => verdict[1] = FALSE
            /\ runs + 1 = 24 => verdict[1] = FALSE

C1_Witness ==
    /\ verdict = Some(TRUE)
    /\ parkrunner.data_runs = 9
    /\ parkrunner.data_agegroup = <<>>

\* C2: a qualifying triple that more than one fetched event returned has
\* exactly one entry in the result, stamped with the event id of the first
\* fetch that held it, which is the largest event id among the fetches
\* that held it.
C2_OneEntryFirstEvent ==
    Returned =>
        \A t \in QualifyingSeen :
            Cardinality(Holding(t)) >= 2 =>
                /\ Cardinality(EntriesOf(t)) = 1
                /\ \A p \in EntriesOf(t) :
                     Result[p].data_event_id = IdOf(FirstSeen(t))
                /\ \A k \in Holding(t) : IdOf(k) <= IdOf(FirstSeen(t))

\* The same, for scans in which no two qualifying triples share a key.
C2_OneEntryFirstEventDistinctKeys == KeysDistinct => C2_OneEntryFirstEvent

\* C3: when "latest" resolves to L >= 1 and no fetch fails, the scan makes
\* exactly min(events_limit, L) fetches, the first of the latest page and
\* the k-th of event L - k + 1, never of event 0, and returns.
C3_WalkDown ==
    latest >= 1 =>
        /\ Len(fetches) <= Min(events_limit, latest)
        /\ \A k \in Fetched :
             /\ fetches[k] = IF k = 1 THEN None ELSE Some(latest - k + 1)
             /\ fetches[k] # Some(0)
        /\ (Ended /\ \A k \in Fetched : OkOf(k)) =>
             /\ Outcome.status = "returned"
             /\ Len(fetches) = Min(events_limit, latest)

C3_Witness ==
    /\ Returned
    /\ latest = 3
    /\ events_limit = BigLimit
    /\ fetches = <<None, Some(2), Some(1)>>

\* C4: whatever id the fetcher resolves (0 and negative ids included), the
\* loop does not go on with an event id that is 0 or negative: no fetch of
\* such an id is made.
C4_StopsAtNonPositive ==
    /\ (pc = "for" /\ i < events_limit /\ event_id # None) => event_id[1] > 0
    /\ \A k \in Fetched : fetches[k] # None => fetches[k][1] > 0

\* C5: a failed fetch, on the first iteration or a later one, ends the scan
\* in an error: nothing is returned, the failed fetch is the last one made
\* and no request was made twice.
C5_FailureAborts ==
    \A k \in Fetched :
        ~OkOf(k) =>
            /\ k = Len(fetches)
            /\ Ended
            /\ Outcome = [status |-> "raised", value |-> None]
            /\ \A j \in Fetched : j # k => fetches[j] # fetches[k]

C5_Witness ==
    /\ Ended
    /\ Outcome.status = "raised"
    /\ Len(fetches) >= 2
    /\ all_celebrants # <<>>

\* C6: the result holds an entry for a triple exactly when a fetched event
\* returned a row with that triple that check_milestone accepts.
C6_ExactlyQualifying ==
    Returned => { Triple(Result[p]) : p \in 1..Len(Result) } = QualifyingSeen

\* The same, for scans in which no two qualifying triples share a key.
C6_ExactlyQualifyingDistinctKeys == KeysDistinct => C6_ExactlyQualifying

\* C7: against the same site, every invocation of detect_milestones with
\* the same arguments ends with the same outcome: the same entries, in the
\* same order, with the same stamps.
C7_SameOutcome ==
    \A j \in 1..Len(outcomes) : outcomes[j] = outcomes[1]

C7_Witness ==
    /\ Len(outcomes) = 2
    /\ Returned
    /\ Len(fetches) = 2
    /\ Len(Result) = 2

\* C8: within one scan every step keeps each entry of the dict in place and
\* unchanged, and folding a row whose key is present changes nothing.
C8_OnlyGrows ==
    [][ invocation' = invocation =>
          /\ Len(all_celebrants') >= Len(all_celebrants)
          /\ \A k \in 1..Len(all_celebrants) :
               all_celebrants'[k] = all_celebrants[k]
          /\ ( /\ pc = "fold"
               /\ next_celebrants # <<>>
               /\ generate_key(Head(next_celebrants)) \in Keys(all_celebrants) )
             => all_celebrants' = all_celebrants ]_vars

\* A later event returned a row that is already in the dict.
C8_Witness ==
    /\ Returned
    /\ Len(fetches) = 2
    /\ Len(Result) = 1
    /\ \E r \in Range(PageOf(1)) \cap Range(PageOf(2)) : check_milestone(r)

\* C9: two qualifying rows of the scanned events whose triples differ are
\* both in the result, as separate entries.
C9_DistinctTriplesKept ==
    Returned =>
        \A t1, t2 \in QualifyingSeen :
            t1 # t2 =>
                \E p, q \in 1..Len(Result) :
                    p # q /\ Triple(Result[p]) = t1 /\ Triple(Result[q]) = t2

\* C10: the result is in discovery order: entries first seen in a more
\* recent event come first, entries first seen in the same event are in
\* ascending data-runs order, and those of equal data-runs are in the
\* order of the page.
C10_DiscoveryOrder ==
    Returned =>
        \A p, q \in 1..Len(Result) :
            p < q =>
                LET x == Result[p]
                    y == Result[q]
                    fx == FirstSeen(Triple(x))
                    fy == FirstSeen(Triple(y))
                IN  /\ fx <= fy
                    /\ IdOf(fx) >= IdOf(fy)
                    /\ fx = fy =>
                         /\ x.data_runs <= y.data_runs
                         /\ x.data_runs = y.data_runs =>
                              FirstPos(Triple(x), PageOf(fx))
                                  < FirstPos(Triple(y), PageOf(fx))

\* The latest page listed the larger count first; the result lists it second.
C10_Witness ==
    /\ Returned
    /\ Len(fetches) = 2
    /\ PageOf(1) = <<B49, A24>>
    /\ Len(Result) = 2
    /\ Result[1].data_runs = 24
    /\ Result[2].data_runs = 49

====
